---- MODULE Spec2Model ----
(***************************************************************************)
(* A model of the XPlaneConnect Python client (src/Python/src/xpc.py).     *)
(*                                                                         *)
(* The client owns one UDP socket.  Every public operation validates its   *)
(* arguments, packs a message with struct.pack and hands it to sendUDP;    *)
(* readDATA and getDREFs read one datagram with readUDP and unpack it.     *)
(*                                                                         *)
(* Bytes are integers 0..255 and a message is a sequence of bytes.  A      *)
(* Python number passed to the client is an integer of the model; a float  *)
(* unpacked from the wire is the dyadic rational <<m, e>> = m * 2^e with m *)
(* odd (or <<0, 0>>), so that the 32-bit pattern struct.pack writes and    *)
(* the value struct.unpack reads back are both computed, bit by bit.       *)
(* struct follows CPython 2.7 (the code is Python 2: str tags, integer /)  *)
(* on a little-endian host: a value that does not fit its format raises    *)
(* struct.error.                                                           *)
(***************************************************************************)
EXTENDS Integers, Sequences, FiniteSets, TLC

VARIABLES
    socket,      \* self.socket: "open" after construction, "None" after close
    closeCount,  \* how many times the underlying socket's close() was invoked
    sent,        \* the datagrams handed to socket.sendto, in order
    calls,       \* how many I/O operations the caller has issued
    last         \* the last call: its name, arguments, outcome and I/O, and
                 \* what self.socket held when it was made

vars == <<socket, closeCount, sent, calls, last>>

\* The number of I/O operations the caller issues in one run.
MaxCalls == 2

\* socket.recv(16384) in readUDP
RecvBufSize == 16384

-----------------------------------------------------------------------------
(* Arithmetic helpers *)

RECURSIVE Pow2(_)
Pow2(n) == IF n = 0 THEN 1 ELSE 2 * Pow2(n - 1)

RECURSIVE Log2(_)
\* floor(log2(a)) for a >= 1
Log2(a) == IF a < 2 THEN 0 ELSE 1 + Log2(a \div 2)

Abs(v) == IF v < 0 THEN -v ELSE v

Min(a, b) == IF a < b THEN a ELSE b

RECURSIVE Norm(_, _)
\* the dyadic rational m * 2^e with the factors of two moved out of m
Norm(m, e) ==
    IF m = 0 THEN <<0, 0>>
    ELSE IF m % 2 = 0 THEN Norm(m \div 2, e + 1)
    ELSE <<m, e>>

\* the value of the Python number n (an integer of the model) as a float
ToFloat(n) == Norm(n, 0)

-----------------------------------------------------------------------------
(* struct.pack, format by format (little-endian, standard sizes) *)

\* "B": unsigned char
FitsB(v) == v >= 0 /\ v <= 255
PackB(v) == <<v>>

\* "b": signed char
Fitsb(v) == v >= -128 /\ v <= 127
Packb(v) == <<IF v < 0 THEN v + 256 ELSE v>>

\* "<H": unsigned short
FitsH(v) == v >= 0 /\ v <= 65535
PackH(v) == <<v % 256, v \div 256>>

\* "<I": unsigned int (the model's integers stop below 2^31)
FitsI(v) == v >= 0
PackI(v) == <<v % 256, (v \div 256) % 256, (v \div 65536) % 256, v \div 16777216>>

\* "<i": int, two's complement
Packi(v) ==
    IF v >= 0 THEN PackI(v)
    ELSE LET u == (v + 2147483647) + 1   \* v + 2^31, the low 31 bits
         IN  <<u % 256, (u \div 256) % 256, (u \div 65536) % 256,
               128 + (u \div 16777216)>>

\* "<f": IEEE 754 binary32 of an integer v with |v| < 2^24 (exactly
\* representable, so the conversion from the Python double does not round)
Packf(v) ==
    IF v = 0 THEN <<0, 0, 0, 0>>
    ELSE LET a    == Abs(v)
             e    == Log2(a)
             mant == (a - Pow2(e)) * Pow2(23 - e)
             E    == e + 127
             s    == IF v < 0 THEN 1 ELSE 0
         IN  <<mant % 256, (mant \div 256) % 256,
               (E % 2) * 128 + (mant \div 65536), s * 128 + (E \div 2)>>

\* "<Nf" of a sequence of N numbers
PackFloats(vals) ==
    [i \in 1..(4 * Len(vals)) |-> Packf(vals[((i - 1) \div 4) + 1])[((i - 1) % 4) + 1]]

\* "Ns": the N bytes of a string
PackS(s) == s

RECURSIVE JoinAll(_, _, _)
\* pieces[lo] \o ... \o pieces[hi]: what `buffer += piece` in a loop builds
JoinAll(pieces, lo, hi) ==
    IF lo > hi THEN <<>>
    ELSE IF lo = hi THEN pieces[lo]
    ELSE LET mid == (lo + hi) \div 2
         IN  JoinAll(pieces, lo, mid) \o JoinAll(pieces, mid + 1, hi)

(* struct.unpack_from *)

\* unpack_from raises struct.error unless the buffer holds `size` bytes at `offset`
CanUnpack(buffer, offset, size) == Len(buffer) - offset >= size

\* "B" at a 0-based offset
UnpackB(buffer, offset) == buffer[offset + 1]

\* "f" at a 0-based offset: the float whose bit pattern the 4 bytes are
Unpackf(buffer, offset) ==
    LET b0   == buffer[offset + 1]
        b1   == buffer[offset + 2]
        b2   == buffer[offset + 3]
        b3   == buffer[offset + 4]
        s    == b3 \div 128
        E    == (b3 % 128) * 2 + (b2 \div 128)
        mant == (b2 % 128) * 65536 + b1 * 256 + b0
        sgn  == IF s = 1 THEN -1 ELSE 1
    IN  IF E = 255 THEN <<IF mant = 0 THEN sgn ELSE 0, 1000>>   \* inf, nan
        ELSE IF E = 0 THEN Norm(sgn * mant, -149)                  \* subnormal
        ELSE Norm(sgn * (8388608 + mant), E - 150)

\* "Nf" at a 0-based offset
UnpackFloats(buffer, offset, n) ==
    [k \in 1..n |-> Unpackf(buffer, offset + 4 * (k - 1))]

-----------------------------------------------------------------------------
(* The 4-byte message tags, as struct.pack("4s", ...) writes them *)

TagCONN == <<67, 79, 78, 78>>
TagSIMU == <<83, 73, 77, 85>>
TagDATA == <<68, 65, 84, 65>>
TagPOSI == <<80, 79, 83, 73>>
TagCTRL == <<67, 84, 82, 76>>
TagDREF == <<68, 82, 69, 70>>
TagGETD == <<71, 69, 84, 68>>
TagTEXT == <<84, 69, 88, 84>>
TagWYPT == <<87, 89, 80, 84>>

\* "<4sx": the tag and one pad byte
Header(tag) == tag \o <<0>>

-----------------------------------------------------------------------------
(* The outcome of one call: how it ended, what it returned, the datagrams  *)
(* it handed to the socket, its socket I/O in order, and, for a decoding   *)
(* call, the received length and the highest byte position it unpacked.    *)

Effect(outcome, result, msgs, io, rlen, maxRead) ==
    [outcome |-> outcome, result |-> result, msgs |-> msgs, io |-> io,
     rlen |-> rlen, maxRead |-> maxRead]

\* an exception raised before any I/O
Raise(exc) == Effect(exc, <<>>, <<>>, <<>>, 0, 0)

\* sendUDP(buffer): ValueError on an empty buffer; self.socket.sendto fails
\* with AttributeError when the socket field is None
sendUDP(buffer) ==
    IF Len(buffer) = 0 THEN Raise("ValueError")
    ELSE IF socket = "None" THEN Raise("AttributeError")
    ELSE Effect("ok", <<>>, <<buffer>>, <<"send">>, 0, 0)

\* readUDP(): socket.recv(16384) returns at most 16384 bytes of the datagram
readUDP(dgram) == SubSeq(dgram, 1, Min(Len(dgram), RecvBufSize))

-----------------------------------------------------------------------------
(* Configuration *)

\* setCONN(port)
setCONN(port) ==
    IF port < 0 \/ port > 65535 THEN Raise("ValueError")
    ELSE IF ~FitsH(port) THEN Raise("struct.error")
    ELSE sendUDP(Header(TagCONN) \o PackH(port))

\* pauseSim(pause)
pauseSim(pause) ==
    IF pause < 0 \/ pause > 2 THEN Raise("ValueError")
    ELSE IF ~FitsB(pause) THEN Raise("struct.error")
    ELSE sendUDP(Header(TagSIMU) \o PackB(pause))

-----------------------------------------------------------------------------
(* X-Plane UDP data *)

\* "<I8f" of one row
PackRow(row) == PackI(row[1]) \o PackFloats(SubSeq(row, 2, 9))

\* why the loop of sendDATA stops at a row: its length, then what "<I" takes
RowError(row) ==
    IF Len(row) # 9 THEN "ValueError"
    ELSE IF ~FitsI(row[1]) THEN "struct.error"
    ELSE ""

\* PackRows with a slip: a row that is not 9 long is skipped, not rejected
PackRows_SkipsBadRows(data, buffer) ==
    LET good == {i \in 1..Len(data) : RowError(data[i]) = ""}
    IN  [exc |-> "",
         buffer |-> buffer \o JoinAll([i \in 1..Len(data) |->
                                          IF i \in good THEN PackRow(data[i]) ELSE <<>>],
                                      1, Len(data))]

\* the loop of sendDATA over data: each row is checked, then packed and
\* appended to `buffer`, before the next row is looked at; the loop ends at
\* the first row it rejects (nothing is sent inside the loop)
PackRows(data, buffer) ==
    LET bad   == {i \in 1..Len(data) : RowError(data[i]) # ""}
        first == CHOOSE i \in bad : \A j \in bad : i <= j
    IN  IF bad # {} THEN [exc |-> RowError(data[first]), buffer |-> buffer]
        ELSE [exc |-> "",
              buffer |-> buffer \o JoinAll([i \in 1..Len(data) |-> PackRow(data[i])],
                                           1, Len(data))]

\* sendDATA(data)
sendDATA(data) ==
    IF Len(data) > 134 THEN Raise("ValueError")
    ELSE LET packed == PackRows(data, Header(TagDATA))
         IN  IF packed.exc # "" THEN Raise(packed.exc)
             ELSE sendUDP(packed.buffer)

\* readDATA(): `incoming` is what the socket delivers to the one recv, a
\* datagram or nothing before the timeout
readDATA(incoming) ==
    IF socket = "None" THEN Raise("AttributeError")
    ELSE IF ~incoming.arrives
    THEN Effect("socket.timeout", <<>>, <<>>, <<"recv">>, 0, 0)
    ELSE LET buffer == readUDP(incoming.dgram)
             rows   == (Len(buffer) - 5) \div 36
         IN  IF Len(buffer) < 6
             THEN Effect("None", <<>>, <<>>, <<"recv">>, Len(buffer), 0)
             ELSE Effect("ok",
                         [i \in 1..rows |-> UnpackFloats(buffer, 5 + 36 * (i - 1), 9)],
                         <<>>, <<"recv">>, Len(buffer), 5 + 36 * rows)

-----------------------------------------------------------------------------
(* Position and controls *)

\* the i-th (0-based) slot of a POSI/CTRL message: the value given, or -998
Slot(values, i) == IF i < Len(values) THEN values[i + 1] ELSE -998

\* sendPOSI(values, ac)
sendPOSI(values, ac) ==
    IF Len(values) < 1 \/ Len(values) > 7 THEN Raise("ValueError")
    ELSE IF ac < 0 \/ ac > 20 THEN Raise("ValueError")
    ELSE IF ~FitsB(ac) THEN Raise("struct.error")
    ELSE sendUDP(Header(TagPOSI) \o PackB(ac)
                 \o PackFloats([i \in 1..7 |-> Slot(values, i - 1)]))

\* the gear slot of sendCTRL: -998 (within 1e-4) is sent as -1
Gear(val) == IF Abs(val + 998) < 1 THEN -1 ELSE val

\* sendCTRL(values, ac)
sendCTRL(values, ac) ==
    IF Len(values) < 1 \/ Len(values) > 7 THEN Raise("ValueError")
    ELSE IF ac < 0 \/ ac > 20 THEN Raise("ValueError")
    ELSE IF ~Fitsb(Gear(Slot(values, 4))) \/ ~FitsB(ac) THEN Raise("struct.error")
    ELSE sendUDP(Header(TagCTRL)
                 \o PackFloats([i \in 1..4 |-> Slot(values, i - 1)])
                 \o Packb(Gear(Slot(values, 4)))
                 \o Packf(Slot(values, 5))
                 \o PackB(ac)
                 \o (IF Len(values) = 7 THEN Packf(values[7]) ELSE <<>>))

-----------------------------------------------------------------------------
(* DREF manipulation *)

\* The `values` argument of sendDREF is None, a scalar or a sequence:
\*   [kind |-> "None"], [kind |-> "scalar", v |-> n], [kind |-> "seq", v |-> <<...>>]
NoneValue     == [kind |-> "None", v |-> <<>>]
Scalar(n)     == [kind |-> "scalar", v |-> n]
Sequence(seq) == [kind |-> "seq", v |-> seq]

\* hasattr(values, "__len__")
HasLen(values) == values.kind = "seq"

\* struct.pack(fmt, *args) raises struct.error unless it is given exactly the
\* number of items fmt names, each of the type its format code takes.  The
\* sequence branch of sendDREF passes `values` itself as ONE item after the
\* four items "DREF", len(dref), dref, len(values), under a format that names
\* 4 + len(values) items; with one item to pack that item is the list, which
\* is not a float.
IsFloat(item) == item.kind = "scalar"
SeqPackAccepts(values) ==
    /\ 4 + Len(values.v) = 5     \* items the format names = items passed
    /\ IsFloat(values)           \* the one item left for "f" is `values`

\* sendDREF(dref, values)
sendDREF(dref, values) ==
    IF Len(dref) = 0 \/ Len(dref) > 255 THEN Raise("ValueError")
    ELSE IF values.kind = "None" THEN Raise("ValueError")
    ELSE IF HasLen(values)
    THEN IF Len(values.v) > 255 THEN Raise("ValueError")
         ELSE IF ~FitsB(Len(dref)) \/ ~FitsB(Len(values.v)) \/ ~SeqPackAccepts(values)
         THEN Raise("struct.error")
         ELSE sendUDP(Header(TagDREF) \o PackB(Len(dref)) \o PackS(dref)
                      \o PackB(Len(values.v)) \o PackFloats(values.v))
    ELSE IF ~FitsB(Len(dref)) THEN Raise("struct.error")
         ELSE sendUDP(Header(TagDREF) \o PackB(Len(dref)) \o PackS(dref)
                      \o PackB(1) \o Packf(values.v))

\* "<B{n}s" of one name
PackName(dref) == PackB(Len(dref)) \o PackS(dref)

\* the request loop of getDREFs over drefs: each name is packed and appended
\* to `buffer`; the loop ends at the first name whose length "B" rejects
PackNames(drefs, buffer) ==
    IF \E i \in 1..Len(drefs) : ~FitsB(Len(drefs[i]))
    THEN [exc |-> "struct.error", buffer |-> buffer]
    ELSE [exc |-> "",
          buffer |-> buffer \o JoinAll([i \in 1..Len(drefs) |-> PackName(drefs[i])],
                                       1, Len(drefs))]

\* the GETD request of getDREFs(drefs)
GetdRequest(drefs) ==
    IF ~FitsB(Len(drefs)) THEN [exc |-> "struct.error", buffer |-> <<>>]
    ELSE PackNames(drefs, Header(TagGETD) \o PackB(Len(drefs)))

RECURSIVE ParseRows(_, _, _, _, _)
\* the response loop of getDREFs: `left` rows still to read at `offset`;
\* maxRead is the end of the last field unpacked
ParseRows(buffer, offset, left, result, maxRead) ==
    IF left = 0 THEN [exc |-> "", result |-> result, maxRead |-> maxRead]
    ELSE IF ~CanUnpack(buffer, offset, 1)
    THEN [exc |-> "struct.error", result |-> result, maxRead |-> maxRead]
    ELSE LET rowLen == UnpackB(buffer, offset)
             start  == offset + 1
         IN  IF ~CanUnpack(buffer, start, 4 * rowLen)
             THEN [exc |-> "struct.error", result |-> result, maxRead |-> start]
             ELSE ParseRows(buffer, start + 4 * rowLen, left - 1,
                            Append(result, UnpackFloats(buffer, start, rowLen)),
                            start + 4 * rowLen)

\* GetdResponse with a slip: a datagram without a count byte is taken as an
\* answer with no rows, the way readDATA takes a short datagram as no data
GetdResponse_ShortIsEmpty(buffer) ==
    IF ~CanUnpack(buffer, 5, 1)
    THEN [exc |-> "", result |-> <<>>, maxRead |-> 0]
    ELSE ParseRows(buffer, 6, UnpackB(buffer, 5), <<>>, 6)

\* the response half of getDREFs
GetdResponse(buffer) ==
    IF ~CanUnpack(buffer, 5, 1)
    THEN [exc |-> "struct.error", result |-> <<>>, maxRead |-> 0]
    ELSE ParseRows(buffer, 6, UnpackB(buffer, 5), <<>>, 6)

\* getDREFs with a slip: after a timeout the request is sent and awaited again
getDREFs_RetriesOnTimeout(drefs, incoming) ==
    LET request == GetdRequest(drefs)
        sending == sendUDP(request.buffer)
    IN  IF request.exc # "" THEN Raise(request.exc)
        ELSE IF sending.outcome # "ok" THEN sending
        ELSE IF ~incoming.arrives
        THEN Effect("socket.timeout", <<>>, sending.msgs \o sending.msgs,
                    <<"send", "recv", "send", "recv">>, 0, 0)
        ELSE LET buffer  == readUDP(incoming.dgram)
                 decoded == GetdResponse(buffer)
             IN  Effect(IF decoded.exc # "" THEN decoded.exc ELSE "ok",
                        IF decoded.exc # "" THEN <<>> ELSE decoded.result,
                        sending.msgs, <<"send", "recv">>, Len(buffer), decoded.maxRead)

\* getDREFs(drefs): `incoming` is what the socket delivers to the one recv
getDREFs(drefs, incoming) ==
    LET request == GetdRequest(drefs)
        sending == sendUDP(request.buffer)
    IN  IF request.exc # "" THEN Raise(request.exc)
        ELSE IF sending.outcome # "ok" THEN sending
        ELSE IF ~incoming.arrives
        THEN Effect("socket.timeout", <<>>, sending.msgs, <<"send", "recv">>, 0, 0)
        ELSE LET buffer  == readUDP(incoming.dgram)
                 decoded == GetdResponse(buffer)
             IN  Effect(IF decoded.exc # "" THEN decoded.exc ELSE "ok",
                        IF decoded.exc # "" THEN <<>> ELSE decoded.result,
                        sending.msgs, <<"send", "recv">>, Len(buffer), decoded.maxRead)

\* getDREF(dref): element 0 of getDREFs([dref]); the result is the row
getDREF(dref, incoming) ==
    LET got == getDREFs(<<dref>>, incoming)
    IN  IF got.outcome # "ok" THEN got
        ELSE IF Len(got.result) = 0 THEN [got EXCEPT !.outcome = "IndexError"]
        ELSE [got EXCEPT !.result = got.result[1]]

-----------------------------------------------------------------------------
(* Drawing *)

\* The `msg` argument of sendTEXT is None or a string
NoneMsg   == [isNone |-> TRUE, s |-> <<>>]
Msg(s)    == [isNone |-> FALSE, s |-> s]

\* sendTEXT(msg, x, y)
sendTEXT(msg, x, y) ==
    IF y < -1 THEN Raise("ValueError")
    ELSE LET text   == IF msg.isNone THEN <<>> ELSE msg.s
             msgLen == Len(text)
         IN  IF ~FitsB(msgLen) THEN Raise("struct.error")
             ELSE sendUDP(Header(TagTEXT) \o Packi(x) \o Packi(y)
                          \o PackB(msgLen) \o PackS(text))

\* sendWYPT with a slip: the clear operation packs its points like add and
\* remove do
sendWYPT_ClearPacksPoints(op, points) ==
    IF op < 1 \/ op > 3 THEN Raise("ValueError")
    ELSE IF Len(points) % 3 # 0 THEN Raise("ValueError")
    ELSE IF Len(points) \div 3 > 255 THEN Raise("ValueError")
    ELSE IF ~FitsB(op) \/ ~FitsB(Len(points)) THEN Raise("struct.error")
    ELSE sendUDP(Header(TagWYPT) \o PackB(op) \o PackB(Len(points))
                 \o PackFloats(points))

\* sendWYPT(op, points)
sendWYPT(op, points) ==
    IF op < 1 \/ op > 3 THEN Raise("ValueError")
    ELSE IF Len(points) % 3 # 0 THEN Raise("ValueError")
    ELSE IF Len(points) \div 3 > 255 THEN Raise("ValueError")
    ELSE IF op = 3 THEN sendUDP(Header(TagWYPT) \o PackB(3) \o PackB(0))
    ELSE IF ~FitsB(op) \/ ~FitsB(Len(points)) THEN Raise("struct.error")
    ELSE sendUDP(Header(TagWYPT) \o PackB(op) \o PackB(Len(points))
                 \o PackFloats(points))

-----------------------------------------------------------------------------
(* Socket lifecycle *)

\* close with a slip: the socket is closed whenever close() is called, and
\* the field keeps it
close_Unguarded ==
    [socket |-> socket, closeCount |-> closeCount + 1]

\* close(): the socket's close() is invoked only while the field holds a socket
close ==
    IF socket # "None"
    THEN [socket |-> "None", closeCount |-> closeCount + 1]
    ELSE [socket |-> socket, closeCount |-> closeCount]

\* __exit__(type, value, traceback)
exit == close

\* __del__()
del == close

-----------------------------------------------------------------------------
(* The state machine: the caller issues one operation after another *)

NoCall ==
    [op |-> "init", args |-> <<>>, outcome |-> "ok", result |-> <<>>,
     io |-> <<>>, rlen |-> 0, maxRead |-> 0, socketBefore |-> "None"]

\* the state after __init__ succeeded: the socket is created and bound
Init ==
    /\ socket = "open"
    /\ closeCount = 0
    /\ sent = <<>>
    /\ calls = 0
    /\ last = NoCall

\* one I/O operation, from call to return (or raise)
Step(op, args, eff) ==
    /\ calls < MaxCalls
    /\ calls' = calls + 1
    /\ sent' = sent \o eff.msgs
    /\ last' = [op |-> op, args |-> args, outcome |-> eff.outcome,
                result |-> eff.result, io |-> eff.io, rlen |-> eff.rlen,
                maxRead |-> eff.maxRead, socketBefore |-> socket]
    /\ UNCHANGED <<socket, closeCount>>

\* one lifecycle call
Lifecycle(op, after) ==
    /\ socket' = after.socket
    /\ closeCount' = after.closeCount
    /\ last' = [NoCall EXCEPT !.op = op, !.socketBefore = socket]
    /\ UNCHANGED <<sent, calls>>

\* what the socket can deliver to a recv: nothing before the timeout, a
\* datagram this client sent (echoed back), or one of `others`
Timeout    == [arrives |-> FALSE, dgram |-> <<>>]
Arrives(d) == [arrives |-> TRUE, dgram |-> d]
Incoming(others) ==
    {Timeout} \cup {Arrives(sent[i]) : i \in 1..Len(sent)} \cup {Arrives(d) : d \in others}

Call_setCONN(Ports) ==
    \E port \in Ports : Step("setCONN", <<port>>, setCONN(port))

Call_pauseSim(Pauses) ==
    \E pause \in Pauses : Step("pauseSim", <<pause>>, pauseSim(pause))

Call_sendDATA(Datas) ==
    \E data \in Datas : Step("sendDATA", <<data>>, sendDATA(data))

Call_readDATA(Others) ==
    \E incoming \in Incoming(Others) : Step("readDATA", <<incoming>>, readDATA(incoming))

Call_sendPOSI(Args) ==
    \E a \in Args : Step("sendPOSI", a, sendPOSI(a[1], a[2]))

Call_sendCTRL(Args) ==
    \E a \in Args : Step("sendCTRL", a, sendCTRL(a[1], a[2]))

Call_sendDREF(Args) ==
    \E a \in Args : Step("sendDREF", a, sendDREF(a[1], a[2]))

Call_getDREFs(Drefs, Others) ==
    \E drefs \in Drefs, incoming \in Incoming(Others) :
        Step("getDREFs", <<drefs, incoming>>, getDREFs(drefs, incoming))

Call_getDREF(Names, Others) ==
    \E dref \in Names, incoming \in Incoming(Others) :
        Step("getDREF", <<dref, incoming>>, getDREF(dref, incoming))

Call_sendTEXT(Args) ==
    \E a \in Args : Step("sendTEXT", a, sendTEXT(a[1], a[2], a[3]))

Call_sendWYPT(Args) ==
    \E a \in Args : Step("sendWYPT", a, sendWYPT(a[1], a[2]))

Call_close == Lifecycle("close", close)

Call_exit == Lifecycle("__exit__", exit)

Call_del == Lifecycle("__del__", del)

-----------------------------------------------------------------------------
(* Arguments the caller passes, and datagrams the host sends *)

\* a DATA row: the row number and 8 values
Row(idx) == <<idx, 1, 2, 3, 4, 5, 6, 7, 8>>
Rows(n) == [i \in 1..n |-> Row(i)]

\* a row with n entries (n # 9: not a DATA row)
BadRow(n) == [i \in 1..n |-> i]

\* n values; n points' worth of floats
Values(n) == [i \in 1..n |-> i]
Points(n) == [i \in 1..n |-> i % 90]

\* a string of n bytes
Name(n) == [i \in 1..n |-> 97 + (i % 26)]
Names(count, n) == [i \in 1..count |-> Name(n)]

\* "RESP" + filler: the header of what the host answers
RespHeader == <<82, 69, 83, 80, 0>>

RECURSIVE RespRows(_, _)
RespRows(rows, i) ==
    IF i > Len(rows) THEN <<>>
    ELSE <<Len(rows[i])>> \o PackFloats(rows[i]) \o RespRows(rows, i + 1)

\* a well-formed GETD response carrying `rows`
Resp(rows) == RespHeader \o <<Len(rows)>> \o RespRows(rows, 1)

\* responses the host (or anyone else on the network) may send
RespOneRow   == Resp(<<<<7>>>>)
RespTwoRows  == Resp(<<<<1, 2>>, <<>>>>)
RespNoRows   == Resp(<<>>)
RespShort    == RespHeader                             \* 5 bytes: no count byte
RespCutCount == RespHeader \o <<2, 1>> \o Packf(7)     \* declares 2 rows, holds 1
RespCutRow   == RespHeader \o <<1, 2>> \o Packf(7)     \* row declares 2 floats, holds 1
RespTrailing == Resp(<<<<7>>>>) \o <<9, 9, 9>>         \* bytes after the declared end

-----------------------------------------------------------------------------
(* Spec: every operation of the client, each with a few arguments *)

Next ==
    \/ Call_setCONN({49009, 65536})
    \/ Call_pauseSim({1, 3})
    \/ Call_sendDATA({<<Row(0)>>, <<Row(5), BadRow(8)>>})
    \/ Call_readDATA({RespShort})
    \/ Call_sendPOSI({<<Values(2), 0>>})
    \/ Call_sendCTRL({<<Values(7), 0>>})
    \/ Call_sendDREF({<<Name(3), Scalar(5)>>, <<Name(0), Scalar(5)>>})
    \/ Call_getDREFs({<<Name(3)>>, Names(256, 1)}, {RespOneRow, RespCutRow})
    \/ Call_getDREF({Name(3)}, {RespOneRow, RespShort})
    \/ Call_sendTEXT({<<Msg(Name(2)), -1, -1>>, <<NoneMsg, 0, -2>>})
    \/ Call_sendWYPT({<<1, Points(3)>>, <<3, Points(0)>>, <<0, Points(3)>>})
    \/ Call_close
    \/ Call_exit
    \/ Call_del

Spec == Init /\ [][Next]_vars

-----------------------------------------------------------------------------
(* Vocabulary of the properties *)

WriteOps ==
    {"setCONN", "pauseSim", "sendDATA", "sendPOSI", "sendCTRL", "sendDREF",
     "sendTEXT", "sendWYPT"}

LifecycleOps == {"close", "__exit__", "__del__"}

\* how many times `what` occurs in the I/O of a call
Count(io, what) == Cardinality({i \in 1..Len(io) : io[i] = what})

-----------------------------------------------------------------------------
(* C9: over any sequence of close(), __exit__() and __del__() calls the     *)
(* underlying socket's close() is invoked at the first of them and never   *)
(* again; every later call is a no-op that raises nothing and leaves the   *)
(* socket field empty.                                                     *)
C9_ReleasedOnce ==
    /\ closeCount <= 1
    /\ (closeCount = 0) <=> (socket = "open")
    /\ last.op \in LifecycleOps =>
          /\ socket = "None"
          /\ closeCount = 1
          /\ last.outcome = "ok"

\* a lifecycle call made on an instance that was already closed
C9_Witness ==
    /\ last.op \in LifecycleOps
    /\ last.socketBefore = "None"
    /\ closeCount = 1

-----------------------------------------------------------------------------
\* the request of a getDREFs call is one struct.pack accepts
Encodable(drefs) ==
    /\ Len(drefs) <= 255
    /\ \A i \in 1..Len(drefs) : Len(drefs[i]) <= 255

\* the names a getDREFs or getDREF call asks for
Asked(call) == IF call.op = "getDREF" THEN <<call.args[1]>> ELSE call.args[1]

(* C10: every call performs a fixed I/O sequence and retries nothing: a     *)
(* write operation that succeeds performs exactly one send and no receive; *)
(* readDATA performs exactly one receive and no send; getDREFs performs    *)
(* exactly one send followed by exactly one receive, whether it returns,   *)
(* times out or fails to decode (readDATA and getDREFs on an open socket,  *)
(* getDREFs with a request that can be encoded).  The datagrams handed to  *)
(* the socket grow by exactly the sends of the call.                       *)
C10_FixedIO ==
    [][/\ Len(sent') = Len(sent) + Count(last'.io, "send")
       /\ (last'.op \in WriteOps /\ last'.outcome = "ok") => last'.io = <<"send">>
       /\ last'.op \in WriteOps => Count(last'.io, "recv") = 0
       /\ (last'.op = "readDATA" /\ last'.socketBefore = "open") =>
             last'.io = <<"recv">>
       /\ (last'.op \in {"getDREFs", "getDREF"} /\ last'.socketBefore = "open"
           /\ Encodable(Asked(last'))) => last'.io = <<"send", "recv">>
       /\ last'.op \in {"getDREFs", "getDREF"} =>
             last'.io \in {<<>>, <<"send", "recv">>}
      ]_vars

\* a getDREFs call that timed out after its one send and one receive
C10_Witness ==
    /\ last.op = "getDREFs"
    /\ last.outcome = "socket.timeout"
    /\ last.io = <<"send", "recv">>
    /\ Len(sent) = 1

-----------------------------------------------------------------------------
(* SpecWrites: the eight write operations, with arguments on both sides of *)
(* every documented constraint, on an open or a closed socket              *)

NextWrites ==
    \/ Call_setCONN({-1, 0, 65535, 65536})
    \/ Call_pauseSim({-1, 0, 2, 3})
    \/ Call_sendDATA({<<>>, <<Row(0)>>, <<Row(5), Row(134)>>, <<BadRow(8)>>,
                      <<Row(5), BadRow(8)>>, <<Row(1), Row(2), BadRow(10)>>,
                      Rows(135)})
    \/ Call_sendPOSI({<<Values(0), 0>>, <<Values(1), 0>>, <<Values(7), 20>>,
                      <<Values(8), 0>>, <<Values(2), -1>>, <<Values(2), 21>>})
    \/ Call_sendCTRL({<<Values(0), 0>>, <<Values(1), 0>>, <<Values(7), 20>>,
                      <<Values(8), 0>>, <<Values(6), -1>>, <<Values(6), 21>>})
    \/ Call_sendDREF({<<Name(0), Scalar(5)>>, <<Name(1), Scalar(5)>>,
                      <<Name(255), Scalar(5)>>, <<Name(256), Scalar(5)>>,
                      <<Name(3), NoneValue>>, <<Name(3), Sequence(Values(256))>>})
    \/ Call_sendTEXT({<<Msg(Name(2)), -1, -1>>, <<NoneMsg, 0, 0>>,
                      <<Msg(Name(2)), 5, -2>>})
    \/ Call_sendWYPT({<<0, Points(3)>>, <<4, Points(3)>>, <<1, Points(3)>>,
                      <<2, Points(0)>>, <<1, Points(4)>>, <<2, Points(768)>>,
                      <<3, Points(0)>>, <<3, Points(5)>>, <<3, Points(768)>>})
    \/ Call_close

SpecWrites == Init /\ [][NextWrites]_vars

\* the constraints the operations document for their arguments, one by one
ViolatesConstraint(call) ==
    LET a == call.args
    IN  CASE call.op = "setCONN"  -> a[1] < 0 \/ a[1] > 65535
          [] call.op = "pauseSim" -> a[1] \notin {0, 1, 2}
          [] call.op = "sendDATA" ->
                \/ Len(a[1]) > 134
                \/ \E i \in 1..Len(a[1]) : Len(a[1][i]) # 9
          [] call.op \in {"sendPOSI", "sendCTRL"} ->
                \/ Len(a[1]) < 1 \/ Len(a[1]) > 7
                \/ a[2] < 0 \/ a[2] > 20
          [] call.op = "sendDREF" ->
                \/ Len(a[1]) = 0 \/ Len(a[1]) > 255
                \/ a[2].kind = "None"
                \/ (a[2].kind = "seq" /\ Len(a[2].v) > 255)
          [] call.op = "sendTEXT" -> a[3] < -1
          [] call.op = "sendWYPT" ->
                \/ a[1] \notin {1, 2, 3}
                \/ Len(a[2]) % 3 # 0
                \/ Len(a[2]) \div 3 > 255
          [] OTHER -> FALSE

(* C1: a write operation given an argument that violates a documented      *)
(* constraint fails with a validation error (ValueError) and sends no      *)
(* datagram: the datagrams handed to the socket are the same after the     *)
(* call as before it, also when the violation is in a later row of         *)
(* sendDATA.                                                               *)
C1_RejectedBeforeSend ==
    [][(last'.op \in WriteOps /\ ViolatesConstraint(last')) =>
          (last'.outcome = "ValueError" /\ sent' = sent)]_vars

\* sendDATA rejected for its second row, after an earlier call sent a datagram
C1_Witness ==
    /\ last.op = "sendDATA"
    /\ last.args = <<<<Row(5), BadRow(8)>>>>
    /\ last.outcome = "ValueError"
    /\ Len(sent) = 1

-----------------------------------------------------------------------------
(* SpecWYPT: sendWYPT with every operation code and point lists around the *)
(* limits (85 points fill the count byte, 255 points are the documented    *)
(* maximum), on an open or a closed socket                                 *)

NextWYPT ==
    \/ Call_sendWYPT({<<0, Points(3)>>, <<4, Points(3)>>,
                      <<1, Points(0)>>, <<1, Points(3)>>, <<1, Points(4)>>,
                      <<1, Points(255)>>, <<1, Points(258)>>, <<1, Points(765)>>,
                      <<1, Points(768)>>,
                      <<2, Points(0)>>, <<2, Points(6)>>, <<2, Points(765)>>,
                      <<2, Points(768)>>,
                      <<3, Points(0)>>, <<3, Points(3)>>, <<3, Points(4)>>,
                      <<3, Points(765)>>, <<3, Points(766)>>, <<3, Points(768)>>})
    \/ Call_close

SpecWYPT == Init /\ [][NextWYPT]_vars

\* "WYPT" + filler byte + bytes (3, 0)
ClearMessage == <<87, 89, 80, 84, 0, 3, 0>>

\* a whole number of (lat, lon, alt) triples, at most 255 of them
TriplesUpTo255(points) == Len(points) % 3 = 0 /\ Len(points) \div 3 <= 255

(* C3: sendWYPT with op 1 or 2 and n complete triples sends one message    *)
(* ("WYPT", filler, op, one count byte, the floats) for every n in 0..255  *)
(* and fails validation for n = 256.                                       *)
C3_AcceptsUpTo255Points ==
    [][(/\ last'.op = "sendWYPT"
        /\ last'.socketBefore = "open"
        /\ last'.args[1] \in {1, 2}
        /\ Len(last'.args[2]) % 3 = 0) =>
          IF Len(last'.args[2]) \div 3 <= 255
          THEN /\ last'.outcome = "ok"
               /\ Len(sent') = Len(sent) + 1
               /\ SubSeq(sent', 1, Len(sent)) = sent
               /\ LET m == sent'[Len(sent')]
                  IN  /\ Len(m) = 7 + 4 * Len(last'.args[2])
                      /\ SubSeq(m, 1, 6) = Header(TagWYPT) \o <<last'.args[1]>>
          ELSE /\ last'.outcome = "ValueError"
               /\ sent' = sent]_vars

(* C4 as claimed: sendWYPT with op = 3 succeeds and sends exactly the      *)
(* 7-byte clear message for every value of points, whatever its length.    *)
C4_ClearIgnoresAnyPoints ==
    [][(/\ last'.op = "sendWYPT"
        /\ last'.socketBefore = "open"
        /\ last'.args[1] = 3) =>
          (last'.outcome = "ok" /\ sent' = Append(sent, ClearMessage))]_vars

(* C4 as amended: sendWYPT with op = 3 sends exactly the 7-byte clear      *)
(* message, whatever the points are, for every point list that is a whole  *)
(* number of triples, at most 255 of them; any other point list fails      *)
(* validation and nothing is sent.                                         *)
C4_ClearIgnoresValidPoints ==
    [][(/\ last'.op = "sendWYPT"
        /\ last'.socketBefore = "open"
        /\ last'.args[1] = 3) =>
          IF TriplesUpTo255(last'.args[2])
          THEN last'.outcome = "ok" /\ sent' = Append(sent, ClearMessage)
          ELSE last'.outcome = "ValueError" /\ sent' = sent]_vars

\* a clear given 255 points, sent as the 7-byte message
C4_Witness ==
    /\ last.op = "sendWYPT"
    /\ last.args[1] = 3
    /\ Len(last.args[2]) = 765
    /\ last.outcome = "ok"
    /\ Len(sent) >= 1
    /\ sent[Len(sent)] = ClearMessage

-----------------------------------------------------------------------------
(* SpecDATA: sendDATA and readDATA; what readDATA receives is a datagram   *)
(* sendDATA sent, another datagram, or nothing                             *)

\* lists of at most 134 rows, each a row number in 0..134 and 8 values
RoundTripDatas ==
    {<<>>, <<Row(0)>>, <<Row(5)>>, <<Row(0), Row(5)>>,
     <<Row(134), Row(0), Row(7)>>, Rows(134)}

\* one DATA row and 10 bytes of a second one
DataCutRow == Header(TagDATA) \o PackI(3) \o PackFloats(Values(8)) \o Name(10)

NextDATA ==
    \/ Call_sendDATA(RoundTripDatas \cup {<<BadRow(8)>>, Rows(135)})
    \/ Call_readDATA({<<>>, RespShort, DataCutRow})
    \/ Call_close

SpecDATA == Init /\ [][NextDATA]_vars

\* the rows of `data` as readDATA would have to return them
AsFloats(data) == [i \in 1..Len(data) |-> [j \in 1..9 |-> ToFloat(data[i][j])]]

(* C5: for every list of at most 134 rows, each a row number in 0..134 and *)
(* 8 values, the bytes sendDATA sends, when readDATA receives them, decode *)
(* to the same rows: the same row number and the same 8 values, in order   *)
(* (the no-data answer to a message without rows counts as no rows).       *)
C5_DataRoundTrip ==
    \A data \in RoundTripDatas :
        LET m == PackRows(data, Header(TagDATA)).buffer
        IN  (/\ last.op = "readDATA"
             /\ last.socketBefore = "open"
             /\ last.args = <<Arrives(m)>>
             /\ \E i \in 1..Len(sent) : sent[i] = m) =>
                (last.outcome \in {"ok", "None"} /\ last.result = AsFloats(data))

-----------------------------------------------------------------------------
(* SpecDREF: sendDREF, getDREFs and getDREF; the response is well formed,  *)
(* cut short, an echo of a datagram this client sent, or missing           *)

Responses ==
    {<<>>, RespShort, RespNoRows, RespOneRow, RespTwoRows, RespCutCount,
     RespCutRow, RespTrailing}

NextDREF ==
    \/ Call_sendDREF({<<Name(1), Scalar(5)>>, <<Name(255), Scalar(-998)>>,
                      <<Name(3), Sequence(Values(0))>>,
                      <<Name(3), Sequence(Values(1))>>,
                      <<Name(3), Sequence(Values(2))>>,
                      <<Name(3), Sequence(Values(255))>>})
    \/ Call_getDREFs({<<>>, <<Name(3)>>, <<Name(3), Name(5)>>, Names(256, 1)},
                     Responses)
    \/ Call_getDREF({Name(3)}, Responses)
    \/ Call_close

SpecDREF == Init /\ [][NextDREF]_vars

\* the number of values sendDREF is given, and the values
ValueCount(values) == IF values.kind = "seq" THEN Len(values.v) ELSE 1
ValueList(values) == IF values.kind = "seq" THEN values.v ELSE <<values.v>>

(* C6: sendDREF with a name of 1 to 255 bytes and a scalar or a sequence   *)
(* of N floats, 0 <= N <= 255, succeeds and sends "DREF" + filler + 1-byte *)
(* name length + name + 1-byte value count + the floats, the count being 1 *)
(* for a scalar and N for a sequence.                                      *)
C6_DrefMessage ==
    [][(/\ last'.op = "sendDREF"
        /\ last'.socketBefore = "open"
        /\ Len(last'.args[1]) >= 1 /\ Len(last'.args[1]) <= 255
        /\ last'.args[2].kind \in {"scalar", "seq"}
        /\ ValueCount(last'.args[2]) <= 255) =>
          /\ last'.outcome = "ok"
          /\ sent' = Append(sent,
                 <<68, 82, 69, 70, 0>> \o <<Len(last'.args[1])>> \o last'.args[1]
                 \o <<ValueCount(last'.args[2])>>
                 \o PackFloats(ValueList(last'.args[2])))]_vars

\* where the rows a response declares end: 6 bytes of header and count,
\* then per row its length byte and 4 bytes per float it declares
RECURSIVE DeclaredEnd(_, _, _)
DeclaredEnd(buffer, offset, left) ==
    IF left = 0 THEN offset
    ELSE IF offset >= Len(buffer) THEN offset + 1
    ELSE DeclaredEnd(buffer, offset + 1 + 4 * buffer[offset + 1], left - 1)

\* shorter than the GETD header, or declaring more than it holds
Malformed(buffer) ==
    \/ Len(buffer) < 6
    \/ DeclaredEnd(buffer, 6, buffer[6]) > Len(buffer)

\* a getDREFs or getDREF call that got as far as its receive
Received(call) ==
    /\ call.op \in {"getDREFs", "getDREF"}
    /\ call.io = <<"send", "recv">>

\* what that call's receive was given
Delivered(call) == call.args[2]

(* C7: a getDREFs call whose receive times out fails with the timeout      *)
(* error, never a decode error; one that receives a datagram shorter than  *)
(* the 6-byte GETD header, or whose declared counts run past the end of    *)
(* what was received, fails with a decode error (struct.error), which is   *)
(* not the timeout error; and no byte past the received length is read.    *)
C7_TimeoutOrDecodeError ==
    Received(last) =>
        /\ ~Delivered(last).arrives => last.outcome = "socket.timeout"
        /\ (Delivered(last).arrives /\ Malformed(readUDP(Delivered(last).dgram))) =>
              last.outcome = "struct.error"
        /\ last.outcome = "socket.timeout" => ~Delivered(last).arrives
        /\ last.maxRead <= last.rlen
        /\ Delivered(last).arrives => last.rlen = Len(readUDP(Delivered(last).dgram))

\* a response whose row declares more floats than it holds: a decode error
C7_Witness ==
    /\ Received(last)
    /\ Delivered(last) = Arrives(RespCutRow)
    /\ last.outcome = "struct.error"

(* C8: whenever getDREFs(drefs) returns, the result has exactly one row    *)
(* per requested name, and getDREF returns a row whenever its getDREFs     *)
(* call returns.                                                           *)
C8_OneRowPerName ==
    /\ (last.op = "getDREFs" /\ last.outcome = "ok") =>
          Len(last.result) = Len(last.args[1])
    /\ (last.op = "getDREF" /\ Received(last) /\ Delivered(last).arrives
        /\ ~Malformed(readUDP(Delivered(last).dgram))) => last.outcome = "ok"

-----------------------------------------------------------------------------
(* SpecSize: every operation that sends, with the largest arguments it     *)
(* accepts                                                                 *)

NextSize ==
    \/ Call_setCONN({0, 65535})
    \/ Call_pauseSim({2})
    \/ Call_sendDATA({Rows(134)})
    \/ Call_sendPOSI({<<Values(7), 20>>})
    \/ Call_sendCTRL({<<Values(7), 20>>})
    \/ Call_sendDREF({<<Name(255), Scalar(5)>>})
    \/ Call_getDREFs({Names(1, 255), Names(63, 255), Names(64, 255),
                      Names(255, 255)}, {})
    \/ Call_sendTEXT({<<Msg(Name(255)), 0, 0>>})
    \/ Call_sendWYPT({<<1, Points(255)>>, <<3, Points(765)>>})

SpecSize == Init /\ [][NextSize]_vars

(* C2: every message handed to sendUDP, by any operation and for any       *)
(* arguments it accepts, is at most 16384 bytes long.                      *)
C2_MessageSizeBound ==
    \A i \in 1..Len(sent) : Len(sent[i]) <= 16384

====
